---- MODULE Spec2Model ----
(***************************************************************************)
(* Booking lifecycle and resource-status engine of the lab tracking        *)
(* server: the booking routes (server/routes/bookings.js) and the booking  *)
(* expiration service (server/services/bookingExpirationService.js).       *)
(*                                                                         *)
(* Calendar dates are ISO strings "YYYY-MM-DD" and times of day are        *)
(* zero-padded "HH:MM" strings in the code, compared as strings; both are  *)
(* modelled as naturals with the same order.                               *)
(*                                                                         *)
(* The Notification collection is only ever appended to by the engine and  *)
(* never read by it, so the model keeps its increment: newNotifications is *)
(* the sequence of documents saved by the last operation, or, while        *)
(* requests are served step by step, by the requests started since the     *)
(* store was last at rest.                                                 *)
(*                                                                         *)
(* A route handler is an async function: it runs alone between two awaits, *)
(* and other handlers run while it waits for the store.  The actions       *)
(* CreateBooking, SetBookingStatus, UpdateBookingTime and                  *)
(* CheckExpiredBookings serve one request with no other request in flight; *)
(* the step actions further down serve requests one store call at a time,  *)
(* the requests in flight and their local variables being held in          *)
(* inflight.                                                               *)
(*                                                                         *)
(* form is the state of the client's booking form (BookingForm): the       *)
(* fields the user has filled in, which handleSubmit validates before it   *)
(* posts the booking to the server.                                        *)
(*                                                                         *)
(* checkInterval is the timer handle of the BookingExpirationService, and  *)
(* runs the calls of checkExpiredBookings that the timer has started, each *)
(* followed one store call at a time.                                      *)
(***************************************************************************)
EXTENDS Naturals, Integers, Sequences, FiniteSets

VARIABLES bookings, computers, newNotifications, now, req, inflight, form,
          checkInterval, runs

vars == <<bookings, computers, newNotifications, now, req, inflight, form,
          checkInterval, runs>>

(***************************************************************************)
(* Bounds of the model.                                                    *)
(***************************************************************************)
MaxBookings == 2
MaxDate == 2
MaxTime == 2
MaxInflight == 2
MaxDay == 10
MaxRuns == 2

(***************************************************************************)
(* Values.                                                                 *)
(***************************************************************************)
\* A request field that is not sent, or a document field that was never set.
Undefined == "<undefined>"

\* JavaScript truthiness of a string-or-undefined value (the !x tests).
Truthy(x) == x # Undefined /\ x # ""

\* The Computer collection's ids, and an id that names no document.
Computers == {"c1", "c2"}
NoSuchComputer == "c9"

\* The User collection: firebaseUid, Mongo _id and role of each document.
Users ==
  { [firebaseUid |-> "u1", id |-> "oid_u1", role |-> "user"],
    [firebaseUid |-> "a1", id |-> "oid_a1", role |-> "admin"],
    [firebaseUid |-> "a2", id |-> "oid_a2", role |-> "admin"] }

\* A token's uid that has no document in the User collection.
NoSuchUser == "u9"

\* User.find({ role: "admin" }), in the store's order.
AdminUsers ==
  << [firebaseUid |-> "a1", id |-> "oid_a1", role |-> "admin"],
     [firebaseUid |-> "a2", id |-> "oid_a2", role |-> "admin"] >>

\* The test `!user` alone: any user with a document passes.
IsAdmin_AnyUser(actor) ==
  \E u \in Users : u.firebaseUid = actor

\* User.findOne({ firebaseUid }) followed by the role test of the admin routes.
IsAdmin(actor) ==
  \E u \in Users : u.firebaseUid = actor /\ u.role = "admin"

Dates == 1..MaxDate
Times == 0..MaxTime
Statuses == {"pending", "approved", "rejected", "cancelled", "completed"}
ComputerStatuses == {"available", "booked", "maintenance"}

\* The clock: the date and the time of day read by `new Date()`.
currentDate == now.date
currentTime == now.time

BookingIds == 1..MaxBookings
Exists(id) == id \in 1..Len(bookings)

\* An optional body field holding a number: << >> when absent, <<v>> when sent.
Opt(S) == {<< >>} \cup {<<v>> : v \in S}
OrElse(o, old) == IF o = << >> THEN old ELSE o[1]

\* The last request and its response; seq is the parity of the number of
\* requests served, so that two equal requests in a row are two steps.
\* computerId is the resource id of the body, oldComputerId the resource the
\* booking referenced when the handler loaded it, and faults the store calls
\* that failed while the request was served; a handler that has them fills
\* them in.
Logged(op, actor, id, status, reason, result, count) ==
  [op |-> op, actor |-> actor, id |-> id, status |-> status,
   reason |-> reason, result |-> result, count |-> count,
   computerId |-> Undefined, oldComputerId |-> Undefined, faults |-> << >>,
   seq |-> 1 - req.seq]

Notif(userId, title, type, bookingId) ==
  [userId |-> userId, title |-> title, type |-> type, bookingId |-> bookingId]

(***************************************************************************)
(* POST /  -- create a booking.                                            *)
(***************************************************************************)
\* The notification built for adminUsers[0] only.
AdminCreateNotifs_FirstOnly(i, id) ==
  IF i > Len(AdminUsers) THEN << >>
  ELSE << Notif(AdminUsers[i].firebaseUid, "New Booking Request", "info", id) >>

RECURSIVE AdminCreateNotifs(_, _)
AdminCreateNotifs(i, id) ==
  IF i > Len(AdminUsers) THEN << >>
  ELSE << Notif(AdminUsers[i].firebaseUid, "New Booking Request", "info", id) >>
       \o AdminCreateNotifs(i + 1, id)

\* The handler without "Check if computer exists".
CreateResult_NoLookup(computerId, reason) ==
  IF ~Truthy(computerId) \/ ~Truthy(reason) THEN "MissingFields"
  ELSE "Created"

\* "Basic validation", then "Check if computer exists".
CreateResult(computerId, reason) ==
  IF ~Truthy(computerId) \/ ~Truthy(reason) THEN "MissingFields"
  ELSE IF computerId \notin Computers THEN "ResourceNotFound"
  ELSE "Created"

NewBooking(actor, computerId, sd, ed, st, et) ==
  [userId |-> actor, computerId |-> computerId,
   startDate |-> sd, endDate |-> ed, startTime |-> st, endTime |-> et,
   status |-> "pending", rejectionReason |-> Undefined]

CreateBooking(actor, computerId, sd, ed, st, et, reason) ==
  LET result == CreateResult(computerId, reason)
      id == Len(bookings) + 1
  IN /\ req' = [Logged("create", actor, id, Undefined, reason, result, 0)
                 EXCEPT !.computerId = computerId]
     /\ IF result = "Created"
        THEN /\ Len(bookings) < MaxBookings
             /\ bookings' = Append(bookings,
                              NewBooking(actor, computerId, sd, ed, st, et))
             /\ newNotifications' = AdminCreateNotifs(1, id)
        ELSE /\ bookings' = bookings
             /\ newNotifications' = << >>
     /\ UNCHANGED <<computers, now, inflight, form, checkInterval, runs>>

(***************************************************************************)
(* PUT /:id/status  -- admin decision on a booking.                        *)
(***************************************************************************)
\* The list of targets with "completed" added to it.
ValidTargets_WithCompleted == {"approved", "rejected", "cancelled", "completed"}

\* `["approved", "rejected", "cancelled"].includes(status)`
ValidTargets == {"approved", "rejected", "cancelled"}

\* The test with `rejectionReason === undefined` in place of `!rejectionReason`.
RejectionReasonMissing_OnlyAbsent(status, rejectionReason) ==
  status = "rejected" /\ rejectionReason = Undefined

\* `status === "rejected" && !rejectionReason`
RejectionReasonMissing(status, rejectionReason) ==
  status = "rejected" /\ ~Truthy(rejectionReason)

\* The handler's early returns, in the order of the code.
SetStatusResult(actor, id, status, rejectionReason) ==
  IF ~IsAdmin(actor) THEN "Forbidden"
  ELSE IF status \notin ValidTargets THEN "InvalidStatus"
  ELSE IF RejectionReasonMissing(status, rejectionReason)
    THEN "MissingRejectionReason"
  ELSE IF ~Exists(id) THEN "BookingNotFound"
  ELSE "OK"

\* booking.status = status; the reason is stored only on a rejection.
BookingAfterStatus(b, status, rejectionReason) ==
  [b EXCEPT !.status = status,
            !.rejectionReason =
               IF status = "rejected" THEN rejectionReason ELSE @]

\* Booking.findOne({ computerId, status: "approved", _id: { $ne: id } })
OtherApproved(bks, id, computerId) ==
  \E j \in 1..Len(bks) :
    j # id /\ bks[j].computerId = computerId /\ bks[j].status = "approved"

\* The update without the query for other approved bookings.
ComputersAfterStatus_AlwaysRelease(comps, bks, id, status) ==
  LET c == bks[id].computerId
  IN IF status = "approved" THEN [comps EXCEPT ![c] = "booked"]
     ELSE IF status \in {"rejected", "cancelled"}
       THEN [comps EXCEPT ![c] = "available"]
     ELSE comps

\* "Update computer status if needed", evaluated after the booking was saved.
ComputersAfterStatus(comps, bks, id, status) ==
  LET c == bks[id].computerId
  IN IF status = "approved" THEN [comps EXCEPT ![c] = "booked"]
     ELSE IF status \in {"rejected", "cancelled"} /\ ~OtherApproved(bks, id, c)
       THEN [comps EXCEPT ![c] = "available"]
     ELSE comps

\* The notification with the type test inverted.
StatusNotifs_TypeInverted(b, id, status) ==
  << Notif(b.userId,
           CASE status = "approved" -> "Booking Approved"
             [] status = "rejected" -> "Booking Rejected"
             [] status = "cancelled" -> "Booking Cancelled",
           IF status = "approved" THEN "error" ELSE "success", id) >>

\* notifTitle: it stays "" for a status that is none of the three.
StatusTitle(status) ==
  CASE status = "approved" -> "Booking Approved"
    [] status = "rejected" -> "Booking Rejected"
    [] status = "cancelled" -> "Booking Cancelled"
    [] OTHER -> ""

\* "Notify user about status change": one document for the owner, saved
\* `if (notifTitle && notifMsg)`.
StatusNotifs(b, id, status) ==
  IF StatusTitle(status) = "" THEN << >>
  ELSE << Notif(b.userId, StatusTitle(status),
                IF status = "approved" THEN "success" ELSE "error", id) >>

SetBookingStatus(actor, id, status, rejectionReason) ==
  LET result == SetStatusResult(actor, id, status, rejectionReason)
  IN /\ req' = Logged("status", actor, id, status, rejectionReason, result, 0)
     /\ IF result = "OK"
        THEN LET bks == [bookings EXCEPT
                          ![id] = BookingAfterStatus(@, status, rejectionReason)]
             IN /\ bookings' = bks
                /\ computers' = ComputersAfterStatus(computers, bks, id, status)
                /\ newNotifications' = StatusNotifs(bks[id], id, status)
        ELSE /\ UNCHANGED <<bookings, computers, checkInterval, runs>>
             /\ newNotifications' = << >>
     /\ UNCHANGED <<now, inflight, form, checkInterval, runs>>

(***************************************************************************)
(* PUT /:id/status, one store call at a time.  A request in flight is a    *)
(* record of inflight: its parameters, the store call it waits for (pc),   *)
(* the booking document it loaded, and whether its query found another     *)
(* approved booking.  Requests refused before the booking is loaded touch  *)
(* no document and are not followed.                                       *)
(***************************************************************************)
Waits(k, pc) == k \in 1..Len(inflight) /\ inflight[k].pc = pc

\* The admin and body checks pass; the handler awaits Booking.findById.
StartStatus(actor, id, status, rejectionReason) ==
  /\ Len(inflight) < MaxInflight
  /\ IsAdmin(actor)
  /\ status \in ValidTargets
  /\ ~RejectionReasonMissing(status, rejectionReason)
  /\ inflight' = Append(inflight,
       [id |-> id, status |-> status, reason |-> rejectionReason,
        pc |-> "findBooking", loaded |-> << >>, other |-> FALSE])
  /\ newNotifications' = IF inflight = << >> THEN << >> ELSE newNotifications
  /\ req' = Logged("status", actor, id, status, rejectionReason, "started", 0)
  /\ UNCHANGED <<bookings, computers, now, form, checkInterval, runs>>

\* Booking.findById(...).populate("computerId"), or the 404 response.
FindBooking(k) ==
  /\ Waits(k, "findBooking")
  /\ LET r == inflight[k]
     IN inflight' = [inflight EXCEPT ![k] =
          IF Exists(r.id)
          THEN [r EXCEPT !.loaded = <<bookings[r.id]>>, !.pc = "saveBooking"]
          ELSE [r EXCEPT !.pc = "done"]]
  /\ UNCHANGED <<bookings, computers, newNotifications, now, req, form,
                 checkInterval, runs>>

\* booking.status = status; ...; booking.save(): Mongoose writes the paths
\* whose assigned value differs from the loaded one, and no other field.
SaveBooking(k) ==
  /\ Waits(k, "saveBooking")
  /\ LET r == inflight[k]
         doc == r.loaded[1]
     IN /\ bookings' = [bookings EXCEPT
              ![r.id].status = IF r.status # doc.status THEN r.status ELSE @,
              ![r.id].rejectionReason =
                 IF r.status = "rejected" /\ r.reason # doc.rejectionReason
                 THEN r.reason ELSE @]
        /\ inflight' = [inflight EXCEPT ![k].pc =
              IF r.status = "approved" THEN "bookComputer" ELSE "findOther"]
  /\ UNCHANGED <<computers, newNotifications, now, req, form, checkInterval, runs>>

\* Computer.findByIdAndUpdate(..., { status: "booked" })
BookComputer(k) ==
  /\ Waits(k, "bookComputer")
  /\ computers' =
       [computers EXCEPT ![inflight[k].loaded[1].computerId] = "booked"]
  /\ inflight' = [inflight EXCEPT ![k].pc = "notify"]
  /\ UNCHANGED <<bookings, newNotifications, now, req, form, checkInterval, runs>>

\* Booking.findOne({ computerId, status: "approved", _id: { $ne: ... } })
FindOther(k) ==
  /\ Waits(k, "findOther")
  /\ LET r == inflight[k]
         other == OtherApproved(bookings, r.id, r.loaded[1].computerId)
     IN inflight' = [inflight EXCEPT
          ![k].other = other,
          ![k].pc = IF other THEN "notify" ELSE "releaseComputer"]
  /\ UNCHANGED <<bookings, computers, newNotifications, now, req, form,
                 checkInterval, runs>>

\* Computer.findByIdAndUpdate(..., { status: "available" })
ReleaseComputer(k) ==
  /\ Waits(k, "releaseComputer")
  /\ computers' =
       [computers EXCEPT ![inflight[k].loaded[1].computerId] = "available"]
  /\ inflight' = [inflight EXCEPT ![k].pc = "notify"]
  /\ UNCHANGED <<bookings, newNotifications, now, req, form, checkInterval, runs>>

\* userNotification.save(), then the response.
Notify(k) ==
  /\ Waits(k, "notify")
  /\ LET r == inflight[k]
     IN newNotifications' =
          newNotifications \o StatusNotifs(r.loaded[1], r.id, r.status)
  /\ inflight' = [inflight EXCEPT ![k].pc = "done"]
  /\ UNCHANGED <<bookings, computers, now, req, form, checkInterval, runs>>

(***************************************************************************)
(* PUT /:id/time  -- admin reschedule / reassignment of an approved        *)
(* booking.                                                                *)
(***************************************************************************)
\* `computerId && computerId !== booking.computerId.toString()`
ChangesComputer(b, computerId) ==
  Truthy(computerId) /\ computerId # b.computerId

\* The handler without the test of `booking.status !== "approved"`.
UpdateTimeResult_NoStateCheck(actor, id, computerId) ==
  IF ~IsAdmin(actor) THEN "Forbidden"
  ELSE IF ~Exists(id) THEN "BookingNotFound"
  ELSE IF ChangesComputer(bookings[id], computerId)
          /\ computerId \notin Computers THEN "ResourceNotFound"
  ELSE "OK"

\* The handler's early returns, in the order of the code.
UpdateTimeResult(actor, id, computerId) ==
  IF ~IsAdmin(actor) THEN "Forbidden"
  ELSE IF ~Exists(id) THEN "BookingNotFound"
  ELSE IF bookings[id].status # "approved" THEN "InvalidState"
  ELSE IF ChangesComputer(bookings[id], computerId)
          /\ computerId \notin Computers THEN "ResourceNotFound"
  ELSE "OK"

\* The move that releases the old computer without the query for other
\* approved bookings.
ComputersAfterMove_AlwaysRelease(comps, bks, id, computerId) ==
  IF ChangesComputer(bks[id], computerId)
  THEN [comps EXCEPT ![bks[id].computerId] = "available",
                     ![computerId] = "booked"]
  ELSE comps

\* "If changing computer": release the old one, mark the new one booked.
ComputersAfterMove(comps, bks, id, computerId) ==
  IF ChangesComputer(bks[id], computerId)
  THEN LET old == bks[id].computerId
           released == IF OtherApproved(bks, id, old) THEN comps
                       ELSE [comps EXCEPT ![old] = "available"]
       IN [released EXCEPT ![computerId] = "booked"]
  ELSE comps

\* "Update booking details"
BookingAfterUpdate(b, computerId, st, et, ed) ==
  [b EXCEPT !.computerId = IF ChangesComputer(b, computerId)
                           THEN computerId ELSE @,
            !.startTime = OrElse(st, @),
            !.endTime = OrElse(et, @),
            !.endDate = OrElse(ed, @)]

UpdateBookingTime(actor, id, computerId, st, et, ed) ==
  LET result == UpdateTimeResult(actor, id, computerId)
  IN /\ req' = [Logged("time", actor, id, Undefined, Undefined, result, 0)
                 EXCEPT !.computerId = computerId,
                        !.oldComputerId = IF Exists(id)
                                          THEN bookings[id].computerId
                                          ELSE Undefined]
     /\ IF result = "OK"
        THEN /\ computers' =
                  ComputersAfterMove(computers, bookings, id, computerId)
             /\ bookings' = [bookings EXCEPT
                  ![id] = BookingAfterUpdate(@, computerId, st, et, ed)]
        ELSE UNCHANGED <<bookings, computers, checkInterval, runs>>
     /\ newNotifications' = << >>
     /\ UNCHANGED <<now, inflight, form, checkInterval, runs>>

(***************************************************************************)
(* GET /current  -- the admin's list of current bookings.                  *)
(***************************************************************************)
\* The Booking.find query of the route.
IsCurrent(b) ==
  /\ b.status = "approved"
  /\ \/ /\ b.startDate = currentDate
        /\ b.endDate = currentDate
        /\ b.endTime >= currentTime
     \/ b.startDate > currentDate
     \/ b.endDate >= currentDate

\* The ids the query returns.
CurrentIds(bks) == {i \in 1..Len(bks) : IsCurrent(bks[i])}

\* The handler reads the store and writes nothing; count is the length of the
\* list in the response.
GetCurrentBookings(actor) ==
  /\ req' = IF IsAdmin(actor)
            THEN Logged("current", actor, 0, Undefined, Undefined, "OK",
                        Cardinality(CurrentIds(bookings)))
            ELSE Logged("current", actor, 0, Undefined, Undefined,
                        "Forbidden", 0)
  /\ newNotifications' = << >>
  /\ UNCHANGED <<bookings, computers, now, inflight, form, checkInterval,
                 runs>>

(***************************************************************************)
(* BookingExpirationService: the periodic sweep.                           *)
(***************************************************************************)
\* The query with its first branch only.
IsExpired_SameDayOnly(b) ==
  /\ b.status = "approved"
  /\ b.startDate = currentDate
  /\ b.endDate = currentDate
  /\ b.endTime < currentTime

\* The query without `status: "approved"`.
IsExpired_AnyStatus(b) ==
  \/ /\ b.startDate = currentDate
     /\ b.endDate = currentDate
     /\ b.endTime < currentTime
  \/ b.endDate < currentDate

\* The Booking.find query of checkExpiredBookings.
IsExpired(b) ==
  /\ b.status = "approved"
  /\ \/ /\ b.startDate = currentDate
        /\ b.endDate = currentDate
        /\ b.endTime < currentTime
     \/ b.endDate < currentDate

\* The ids the query returns.
ExpiredIds(bks) == {i \in 1..Len(bks) : IsExpired(bks[i])}

\* sendExpirationNotifications: the owner, then every admin (by Mongo _id).
RECURSIVE AdminExpireNotifs(_, _)
AdminExpireNotifs(i, id) ==
  IF i > Len(AdminUsers) THEN << >>
  ELSE << Notif(AdminUsers[i].id, "Computer Available", "success", id) >>
       \o AdminExpireNotifs(i + 1, id)

ExpirationNotifs(b, id) ==
  << Notif(b.userId, "Booking Session Ended", "info", id) >>
  \o AdminExpireNotifs(1, id)

\* handleExpiredBooking without the write of status "completed".
HandleExpiredBooking_StatusKept(st, id) ==
  LET c == st.b[id].computerId
  IN [b |-> st.b,
      c |-> IF st.c[c] = "booked" THEN [st.c EXCEPT ![c] = "available"]
            ELSE st.c,
      n |-> st.n \o ExpirationNotifs(st.b[id], id)]

\* handleExpiredBooking with the release gated on the absence of another
\* approved booking on the computer, as in the status route.
HandleExpiredBooking_GatedRelease(st, id) ==
  LET c == st.b[id].computerId
  IN [b |-> [st.b EXCEPT ![id].status = "completed"],
      c |-> IF st.c[c] = "booked" /\ ~OtherApproved(st.b, id, c)
            THEN [st.c EXCEPT ![c] = "available"]
            ELSE st.c,
      n |-> st.n \o ExpirationNotifs(st.b[id], id)]

\* handleExpiredBooking on the store st = [b, c, n], for the selected booking id.
HandleExpiredBooking(st, id) ==
  LET c == st.b[id].computerId
  IN [b |-> [st.b EXCEPT ![id].status = "completed"],
      c |-> IF st.c[c] = "booked" THEN [st.c EXCEPT ![c] = "available"]
            ELSE st.c,
      n |-> st.n \o ExpirationNotifs(st.b[id], id)]

\* The for-loop over the selected bookings, in the store's order, from index i.
RECURSIVE HandleAll(_, _, _)
HandleAll(st, ids, i) ==
  IF i > Len(st.b) THEN st
  ELSE HandleAll(IF i \in ids THEN HandleExpiredBooking(st, i) ELSE st,
                 ids, i + 1)

CheckExpiredBookings ==
  LET ids == ExpiredIds(bookings)
      st == HandleAll([b |-> bookings, c |-> computers, n |-> << >>], ids, 1)
  IN /\ bookings' = st.b
     /\ computers' = st.c
     /\ newNotifications' = st.n
     /\ req' = Logged("sweep", Undefined, 0, Undefined, Undefined, "OK",
                      Cardinality(ids))
     /\ UNCHANGED <<now, inflight, form, checkInterval, runs>>

(***************************************************************************)
(* The sweep over a store whose calls may fail.  A fault names the store   *)
(* call of handleExpiredBooking that throws for one booking, with the      *)
(* index of the admin whose notification is not saved; the fault of index  *)
(* 0 is that of the Booking.find query.                                    *)
(***************************************************************************)
NoFault == <<"none", 0>>

Faults ==
  { NoFault, <<"saveBooking", 0>>, <<"findComputer", 0>>,
    <<"saveComputer", 0>>, <<"saveUserNotification", 0>>, <<"findAdmins", 0>> }
  \cup { <<"saveAdminNotification", k>> : k \in 1..Len(AdminUsers) }

\* handleExpiredBooking when the store call `fault` throws: the writes made
\* before the call stay, and the catch block of the method, or that of
\* sendExpirationNotifications, ends the work on this booking.
HandleExpiredBookingFault(st, id, fault) ==
  LET c == st.b[id].computerId
      completed == [st.b EXCEPT ![id].status = "completed"]
      released == IF st.c[c] = "booked" THEN [st.c EXCEPT ![c] = "available"]
                  ELSE st.c
      notifs == ExpirationNotifs(st.b[id], id)
  IN CASE fault[1] = "none" -> HandleExpiredBooking(st, id)
       [] fault[1] = "saveBooking" -> st
       [] fault[1] = "findComputer" -> [st EXCEPT !.b = completed]
       [] fault[1] = "saveComputer" ->
            \* computer.save() is called only for a booked computer
            IF st.c[c] = "booked" THEN [st EXCEPT !.b = completed]
            ELSE HandleExpiredBooking(st, id)
       [] fault[1] = "saveUserNotification" ->
            [b |-> completed, c |-> released, n |-> st.n]
       [] fault[1] = "findAdmins" ->
            [b |-> completed, c |-> released,
             n |-> st.n \o SubSeq(notifs, 1, 1)]
       [] fault[1] = "saveAdminNotification" ->
            [b |-> completed, c |-> released,
             n |-> st.n \o SubSeq(notifs, 1, fault[2])]

\* The for-loop with the try block around the loop instead of inside
\* handleExpiredBooking: the first failure ends the run.
RECURSIVE HandleAllFault_AbortOnError(_, _, _, _)
HandleAllFault_AbortOnError(st, ids, faults, i) ==
  IF i > Len(st.b) THEN st
  ELSE IF i \in ids
    THEN IF faults[i] = NoFault
         THEN HandleAllFault_AbortOnError(HandleExpiredBooking(st, i),
                                          ids, faults, i + 1)
         ELSE HandleExpiredBookingFault(st, i, faults[i])
    ELSE HandleAllFault_AbortOnError(st, ids, faults, i + 1)

\* The for-loop over the selected bookings: handleExpiredBooking never throws.
RECURSIVE HandleAllFault(_, _, _, _)
HandleAllFault(st, ids, faults, i) ==
  IF i > Len(st.b) THEN st
  ELSE HandleAllFault(IF i \in ids
                      THEN HandleExpiredBookingFault(st, i, faults[i])
                      ELSE st,
                      ids, faults, i + 1)

\* checkExpiredBookings with the faults of this run.  When the query throws,
\* the catch block of checkExpiredBookings logs the error; the method returns
\* normally in every case.
CheckExpiredBookingsFault(faults) ==
  LET ids == IF faults[0] = NoFault THEN ExpiredIds(bookings) ELSE {}
      st == HandleAllFault([b |-> bookings, c |-> computers, n |-> << >>],
                           ids, faults, 1)
  IN /\ \A i \in 1..Len(bookings) : i \notin ids => faults[i] = NoFault
     /\ bookings' = st.b
     /\ computers' = st.c
     /\ newNotifications' = st.n
     /\ req' = [Logged("sweep", Undefined, 0, Undefined, Undefined, "OK",
                       Cardinality(ids))
                EXCEPT !.faults = faults]
     /\ UNCHANGED <<now, inflight, form, checkInterval, runs>>

(***************************************************************************)
(* The clock advances to the next time of day, or to the next morning; it  *)
(* stops on the morning after the last bookable date.                      *)
(***************************************************************************)
Tick ==
  /\ \/ /\ now.time < MaxTime
        /\ now.date <= MaxDate
        /\ now' = [now EXCEPT !.time = @ + 1]
     \/ /\ now.time = MaxTime
        /\ now.date < MaxDate + 1
        /\ now' = [date |-> now.date + 1, time |-> 0]
  /\ req' = Logged("tick", Undefined, 0, Undefined, Undefined, "OK", 0)
  /\ newNotifications' = << >>
  /\ UNCHANGED <<bookings, computers, inflight, form, checkInterval, runs>>

(***************************************************************************)
(* BookingExpirationService as the timer runs it.  initializeService arms  *)
(* a timer whose callback calls checkExpiredBookings without awaiting it,  *)
(* so a run may start while an earlier one is still awaiting the store.  A *)
(* run is a record of runs: the store call it waits for (pc), the booking  *)
(* documents its query returned (sel), the index in sel of the booking it  *)
(* is handling (i); the computer document it loads is used at once, to     *)
(* choose the next store call.  A run that has returned keeps nothing.     *)
(* The clock does not advance between the reading of the clock and the     *)
(* query of a run.                                                         *)
(***************************************************************************)
\* The values of this.checkInterval: the handle of setInterval, or null.
Timer == "timer"
Null == "null"

IdleRun == [pc |-> "idle", sel |-> << >>, i |-> 0]

Active(k) == runs[k].pc \notin {"idle", "done"}

RunWaits(k, pc) == k \in 1..MaxRuns /\ runs[k].pc = pc

\* The booking document the run is handling, and its index in the store.
Doc(k) == runs[k].sel[runs[k].i].doc
DocId(k) == runs[k].sel[runs[k].i].id

\* The documents of the ids, in the store's order, from index i.
RECURSIVE Loaded(_, _, _)
Loaded(bks, ids, i) ==
  IF i > Len(bks) THEN << >>
  ELSE (IF i \in ids THEN << [id |-> i, doc |-> bks[i]] >> ELSE << >>)
       \o Loaded(bks, ids, i + 1)

\* A timer that stop() does not clear.
TimerFires_AfterStop ==
  /\ \E k \in 1..MaxRuns :
       /\ ~Active(k)
       /\ \A j \in 1..(k - 1) : Active(j)
       /\ runs' = [runs EXCEPT ![k] = [IdleRun EXCEPT !.pc = "find"]]
  /\ newNotifications' =
       IF \E j \in 1..MaxRuns : Active(j) THEN newNotifications ELSE << >>
  /\ UNCHANGED <<bookings, computers, now, req, inflight, form, checkInterval>>

\* The timer fires: the callback calls checkExpiredBookings, which reads the
\* clock and awaits Booking.find.  The run takes the first free record.
TimerFires ==
  /\ checkInterval = Timer
  /\ \E k \in 1..MaxRuns :
       /\ ~Active(k)
       /\ \A j \in 1..(k - 1) : Active(j)
       /\ runs' = [runs EXCEPT ![k] = [IdleRun EXCEPT !.pc = "find"]]
  /\ newNotifications' =
       IF \E j \in 1..MaxRuns : Active(j) THEN newNotifications ELSE << >>
  /\ UNCHANGED <<bookings, computers, now, req, inflight, form, checkInterval>>

\* stop(): clearInterval and this.checkInterval = null, when it is not null.
Stop ==
  /\ checkInterval' = Null
  /\ UNCHANGED <<bookings, computers, newNotifications, now, req, inflight,
                 form, runs>>

\* Booking.find resolves; a run that selected nothing logs its count.
FindExpired(k) ==
  /\ RunWaits(k, "find")
  /\ LET sel == Loaded(bookings, ExpiredIds(bookings), 1)
     IN IF sel = << >>
        THEN /\ runs' = [runs EXCEPT ![k].pc = "done"]
             /\ req' = Logged("sweep", Undefined, 0, Undefined, Undefined,
                              "OK", 0)
        ELSE /\ runs' = [runs EXCEPT ![k].sel = sel, ![k].i = 1,
                                     ![k].pc = "saveBooking"]
             /\ req' = req
  /\ UNCHANGED <<bookings, computers, newNotifications, now, inflight, form,
                 checkInterval>>

\* booking.status = "completed"; booking.save(): the document was loaded as
\* approved, so the status is a modified path and is written.
SaveCompleted(k) ==
  /\ RunWaits(k, "saveBooking")
  /\ bookings' = [bookings EXCEPT ![DocId(k)].status = "completed"]
  /\ runs' = [runs EXCEPT ![k].pc = "findComputer"]
  /\ UNCHANGED <<computers, newNotifications, now, req, inflight, form,
                 checkInterval>>

\* Computer.findById(booking.computerId)
FindComputer(k) ==
  /\ RunWaits(k, "findComputer")
  /\ LET status == computers[Doc(k).computerId]
     IN runs' = [runs EXCEPT ![k].pc = IF status = "booked"
                                       THEN "saveComputer" ELSE "notifyOwner"]
  /\ UNCHANGED <<bookings, computers, newNotifications, now, req, inflight,
                 form, checkInterval>>

\* computer.status = "available"; computer.save()
SaveAvailable(k) ==
  /\ RunWaits(k, "saveComputer")
  /\ computers' = [computers EXCEPT ![Doc(k).computerId] = "available"]
  /\ runs' = [runs EXCEPT ![k].pc = "notifyOwner"]
  /\ UNCHANGED <<bookings, newNotifications, now, req, inflight, form,
                 checkInterval>>

\* sendExpirationNotifications: userNotification.save()
NotifyOwner(k) ==
  /\ RunWaits(k, "notifyOwner")
  /\ newNotifications' = Append(newNotifications,
       Notif(Doc(k).userId, "Booking Session Ended", "info", DocId(k)))
  /\ runs' = [runs EXCEPT ![k].pc = "notifyAdmins"]
  /\ UNCHANGED <<bookings, computers, now, req, inflight, form, checkInterval>>

\* User.find({ role: "admin" }) and the adminNotification.save() of every
\* admin; then the next booking of the loop, or the log of the count.
NotifyAdmins(k) ==
  /\ RunWaits(k, "notifyAdmins")
  /\ newNotifications' = newNotifications \o AdminExpireNotifs(1, DocId(k))
  /\ IF runs[k].i < Len(runs[k].sel)
     THEN /\ runs' = [runs EXCEPT ![k].i = @ + 1, ![k].pc = "saveBooking"]
          /\ req' = req
     ELSE /\ runs' = [runs EXCEPT ![k] = [IdleRun EXCEPT !.pc = "done"]]
          /\ req' = Logged("sweep", Undefined, 0, Undefined, Undefined, "OK",
                           Len(runs[k].sel))
  /\ UNCHANGED <<bookings, computers, now, inflight, form, checkInterval>>

(***************************************************************************)
(* BookingForm.handleSubmit: the client validates the interval, then posts *)
(* the booking.  A calendar day is a natural number, day 0 being a Sunday; *)
(* a time of day is a number of minutes after midnight.                    *)
(***************************************************************************)
Sunday == 0
MaxDurationInDays == 7
MinutesPerHour == 60
MinutesPerDay == 24 * MinutesPerHour

\* The form as it is mounted, and as it is reset after a booking was sent.
EmptyForm ==
  [computer |-> "", startDate |-> << >>, endDate |-> << >>,
   startTime |-> << >>, endTime |-> << >>, reason |-> "", details |-> FALSE]

\* The messages handleSubmit passes to setError, under the names of the
\* rejection reasons they signal.
MissingFields == "Please fill in all required fields"
ClosureDayStart ==
  "Lab is closed on Sundays. Please select a different start date."
ClosureDayEnd ==
  "Lab is closed on Sundays. Please select a different end date."
EndBeforeStart == "End date must be after or equal to start date"
DurationTooLong == "Booking duration cannot exceed 7 days"
EndBeforeStartInstant == "End time must be after start time"
DurationTooShort == "Minimum booking duration is 1 hour for same-day bookings"

\* String.prototype.trim on the reasons the model enters.
Trim(str) == IF str = " " THEN "" ELSE str

\* date-fns getDay with the week counted from Monday.
GetDay_FromMonday(date) == (date + 6) % 7

\* date-fns getDay: 0 for a Sunday.
GetDay(date) == date % 7

\* date-fns isBefore.
IsBefore(date, dateToCompare) == date < dateToCompare

\* date-fns differenceInDays of two dates at the same time of day.
DifferenceInDays(dateLeft, dateRight) == dateLeft - dateRight

\* getDateTime: the date with the hours and minutes of the time.
GetDateTime(date, time) == date * MinutesPerDay + time

\* The number of hours rounded to the nearest hour.
DifferenceInHours_Rounded(dateLeft, dateRight) ==
  IF dateLeft >= dateRight
  THEN (2 * (dateLeft - dateRight) + MinutesPerHour) \div (2 * MinutesPerHour)
  ELSE 0 - ((2 * (dateRight - dateLeft) + MinutesPerHour)
            \div (2 * MinutesPerHour))

\* date-fns differenceInHours: the number of full hours, truncated towards 0.
DifferenceInHours(dateLeft, dateRight) ==
  IF dateLeft >= dateRight
  THEN (dateLeft - dateRight) \div MinutesPerHour
  ELSE 0 - ((dateRight - dateLeft) \div MinutesPerHour)

\* The first test of handleSubmit: a required field is empty.
FieldMissing(f) ==
  \/ f.computer = ""
  \/ f.startDate = << >> \/ f.endDate = << >>
  \/ f.startTime = << >> \/ f.endTime = << >>
  \/ Trim(f.reason) = ""
  \/ ~f.details

\* isBefore with its arguments exchanged.
EndDateBeforeStart_Swapped(f) ==
  IsBefore(f.startDate[1], f.endDate[1])

\* `isBefore(endDate, startDate)`
EndDateBeforeStart(f) ==
  IsBefore(f.endDate[1], f.startDate[1])

\* The duration without the day added for the end date.
DurationInDays_Exclusive(f) ==
  DifferenceInDays(f.endDate[1], f.startDate[1])

\* `differenceInDays(endDate, startDate) + 1`
DurationInDays(f) ==
  DifferenceInDays(f.endDate[1], f.startDate[1]) + 1

\* The minimum duration applied to every booking.
SameDay_Always(f) == TRUE

\* `differenceInDays(endDate, startDate) === 0`
SameDay(f) ==
  DifferenceInDays(f.endDate[1], f.startDate[1]) = 0

\* The validation with the date order tested before the end date's weekday.
Validate_OrderBeforeClosure(f) ==
  LET startDateTime == GetDateTime(f.startDate[1], f.startTime[1])
      endDateTime == GetDateTime(f.endDate[1], f.endTime[1])
  IN IF FieldMissing(f) THEN MissingFields
     ELSE IF GetDay(f.startDate[1]) = Sunday THEN ClosureDayStart
     ELSE IF EndDateBeforeStart(f) THEN EndBeforeStart
     ELSE IF GetDay(f.endDate[1]) = Sunday THEN ClosureDayEnd
     ELSE IF DurationInDays(f) > MaxDurationInDays THEN DurationTooLong
     ELSE IF IsBefore(endDateTime, startDateTime) THEN EndBeforeStartInstant
     ELSE IF SameDay(f) /\ DifferenceInHours(endDateTime, startDateTime) < 1
       THEN DurationTooShort
     ELSE ""

\* The validation of handleSubmit: the message of the first test that fails,
\* in the order of the code, or "" when the form is sent.
Validate(f) ==
  LET startDateTime == GetDateTime(f.startDate[1], f.startTime[1])
      endDateTime == GetDateTime(f.endDate[1], f.endTime[1])
  IN IF FieldMissing(f) THEN MissingFields
     ELSE IF GetDay(f.startDate[1]) = Sunday THEN ClosureDayStart
     ELSE IF GetDay(f.endDate[1]) = Sunday THEN ClosureDayEnd
     ELSE IF EndDateBeforeStart(f) THEN EndBeforeStart
     ELSE IF DurationInDays(f) > MaxDurationInDays THEN DurationTooLong
     ELSE IF IsBefore(endDateTime, startDateTime) THEN EndBeforeStartInstant
     ELSE IF SameDay(f) /\ DifferenceInHours(endDateTime, startDateTime) < 1
       THEN DurationTooShort
     ELSE ""

\* handleSubmit by the signed-in user: the validation, then
\* bookingsAPI.createBooking, which POST / answers; the form is reset when
\* the booking was stored and keeps its fields when an error is shown.
HandleSubmit(actor) ==
  LET error == Validate(form)
      result == IF error # "" THEN error
                ELSE CreateResult(form.computer, Trim(form.reason))
      id == Len(bookings) + 1
  IN /\ req' = [Logged("submit", actor, id, Undefined, form.reason, result, 0)
                 EXCEPT !.computerId = form.computer]
     /\ IF result = "Created"
        THEN /\ Len(bookings) < MaxBookings
             /\ bookings' = Append(bookings,
                  NewBooking(actor, form.computer,
                             form.startDate[1], form.endDate[1],
                             form.startTime[1], form.endTime[1]))
             /\ newNotifications' = AdminCreateNotifs(1, id)
             /\ form' = EmptyForm
        ELSE /\ bookings' = bookings
             /\ newNotifications' = << >>
             /\ form' = form
     /\ UNCHANGED <<computers, now, inflight, checkInterval, runs>>


(***************************************************************************)
\* Intervals requested: a single-day and a multi-day booking, 0 to 1 o'clock.
Intervals == { <<1, 1, 0, 1>>, <<1, MaxDate, 0, 1>> }

Create ==
  \/ \E computerId \in Computers \cup {NoSuchComputer}, iv \in Intervals :
       CreateBooking("u1", computerId, iv[1], iv[2], iv[3], iv[4], "test")
  \/ CreateBooking("u1", "c1", 1, 1, 0, 1, "")

\* Bodies of an admin's status request: target status and rejection reason.
StatusBodies ==
  { <<"approved", Undefined>>, <<"approved", "r1">>, <<"cancelled", Undefined>>,
    <<"rejected", Undefined>>, <<"rejected", "">>, <<"rejected", "r1">> }

SetStatus ==
  \/ \E id \in BookingIds, body \in StatusBodies :
       SetBookingStatus("a1", id, body[1], body[2])
  \/ \E status \in {"pending", "completed"} :
       SetBookingStatus("a1", 1, status, Undefined)
  \/ \E status \in {"approved", "rejected"} :
       SetBookingStatus("u1", 1, status, Undefined)

UpdateTime ==
  \/ \E id \in BookingIds,
        computerId \in Computers \cup {NoSuchComputer, Undefined},
        et \in Opt({MaxTime}), ed \in Opt({MaxDate}) :
       UpdateBookingTime("a1", id, computerId, << >>, et, ed)
  \/ UpdateBookingTime("u1", 1, Undefined, << >>, << >>, << >>)

Sweep == CheckExpiredBookings

Init ==
  /\ bookings = << >>
  /\ computers \in [Computers -> {"available", "maintenance"}]
  /\ newNotifications = << >>
  /\ now = [date |-> 1, time |-> 0]
  /\ req = [op |-> "none", actor |-> Undefined, id |-> 0, status |-> Undefined,
            reason |-> Undefined, result |-> "none", count |-> 0,
            computerId |-> Undefined, oldComputerId |-> Undefined,
            faults |-> << >>, seq |-> 0]
  /\ inflight = << >>
  /\ form = EmptyForm
  /\ checkInterval = Timer
  /\ runs = [k \in 1..MaxRuns |-> IdleRun]

\* Creation, admin decisions, the sweeper and the clock.
Next ==
  \/ Create
  \/ SetStatus
  \/ Sweep
  \/ Tick

Spec == Init /\ [][Next]_vars

\* Creation, admin decisions and reschedules at a fixed instant.
NextMove ==
  \/ Create
  \/ SetStatus
  \/ UpdateTime

SpecMove == Init /\ [][NextMove]_vars

(***************************************************************************)
(* The server left running: initializeService arms a timer that calls      *)
(* checkExpiredBookings every minute until stop(), and time passes.  The   *)
(* other requests arrive or do not.                                        *)
(***************************************************************************)
CreateLive ==
  \E iv \in Intervals :
    CreateBooking("u1", "c1", iv[1], iv[2], iv[3], iv[4], "test")

StatusLive ==
  \E id \in BookingIds,
     body \in { <<"approved", Undefined>>, <<"cancelled", Undefined>>,
                <<"rejected", "r1">> } :
    SetBookingStatus("a1", id, body[1], body[2])

UpdateTimeLive ==
  \E id \in BookingIds :
    UpdateBookingTime("a1", id, Undefined, << >>, << >>, <<MaxDate>>)

NextLive ==
  \/ CreateLive
  \/ StatusLive
  \/ UpdateTimeLive
  \/ Sweep
  \/ Tick

SpecLive ==
  Init /\ [][NextLive]_vars /\ WF_vars(Sweep) /\ WF_vars(Tick)

(***************************************************************************)
(* The sweeper over a failing store.                                       *)
(***************************************************************************)
CreateFault ==
  \E computerId \in Computers :
    CreateBooking("u1", computerId, 1, 1, 0, 1, "test")

ApproveFault ==
  \E id \in BookingIds : SetBookingStatus("a1", id, "approved", Undefined)

SweepFault ==
  \E faults \in [0..Len(bookings) -> Faults] :
    /\ faults[0] = NoFault
    /\ CheckExpiredBookingsFault(faults)

\* Booking.find throws.
SweepQueryFault ==
  CheckExpiredBookingsFault(
    [i \in 0..Len(bookings) |-> IF i = 0 THEN <<"find", 0>> ELSE NoFault])

NextFault ==
  \/ CreateFault
  \/ ApproveFault
  \/ SweepFault
  \/ SweepQueryFault
  \/ Tick

SpecFault == Init /\ [][NextFault]_vars

\* The timer keeps firing and time passes; the store stops failing often
\* enough for runs with no failure to keep happening.
SweepNoFault ==
  CheckExpiredBookingsFault([i \in 0..Len(bookings) |-> NoFault])

SpecFaultLive ==
  Init /\ [][NextFault]_vars /\ WF_vars(SweepNoFault) /\ WF_vars(Tick)

(***************************************************************************)
(* Admin decisions served concurrently: bookings are created and decided   *)
(* one request at a time, then up to MaxInflight status requests are       *)
(* served with their store calls interleaved in any order.                 *)
(***************************************************************************)
CreateRace ==
  /\ inflight = << >>
  /\ \E computerId \in Computers :
       CreateBooking("u1", computerId, 1, 1, 0, 1, "test")

\* Bodies of the status requests that pass the checks of the body.
RaceBodies ==
  { <<"approved", Undefined>>, <<"cancelled", Undefined>>,
    <<"rejected", "r1">> }

DecideRace ==
  /\ inflight = << >>
  /\ \E id \in BookingIds, body \in RaceBodies :
       SetBookingStatus("a1", id, body[1], body[2])

StartRace ==
  \E id \in BookingIds, body \in RaceBodies :
    StartStatus("a1", id, body[1], body[2])

NextRace ==
  \/ CreateRace
  \/ DecideRace
  \/ StartRace
  \/ \E k \in 1..MaxInflight : FindBooking(k)
  \/ \E k \in 1..MaxInflight : SaveBooking(k)
  \/ \E k \in 1..MaxInflight : BookComputer(k)
  \/ \E k \in 1..MaxInflight : FindOther(k)
  \/ \E k \in 1..MaxInflight : ReleaseComputer(k)
  \/ \E k \in 1..MaxInflight : Notify(k)

SpecRace == Init /\ [][NextRace]_vars

(***************************************************************************)
(* The sweeper's runs interleaved with one another: bookings are created   *)
(* and approved while no run is in flight, the timer starts up to MaxRuns  *)
(* runs whose store calls are served in any order, and stop() may be       *)
(* called at any moment.                                                   *)
(***************************************************************************)
NoRunActive == \A k \in 1..MaxRuns : ~Active(k)

CreateSweep ==
  /\ NoRunActive
  /\ CreateBooking("u1", "c1", 1, 1, 0, 1, "test")

ApproveSweep ==
  /\ NoRunActive
  /\ \E id \in BookingIds :
       /\ Exists(id)
       /\ bookings[id].status = "pending"
       /\ SetBookingStatus("a1", id, "approved", Undefined)

\* The clock advances until the morning after the bookings' day.
TickSweep == NoRunActive /\ now.date = 1 /\ Tick

\* The store call a run is waiting for resolves.
RunStep(k) ==
  \/ FindExpired(k)
  \/ SaveCompleted(k)
  \/ FindComputer(k)
  \/ SaveAvailable(k)
  \/ NotifyOwner(k)
  \/ NotifyAdmins(k)

NextSweep ==
  \/ CreateSweep
  \/ ApproveSweep
  \/ TickSweep
  \/ TimerFires
  \/ Stop
  \/ \E k \in 1..MaxRuns : FindExpired(k)
  \/ \E k \in 1..MaxRuns : SaveCompleted(k)
  \/ \E k \in 1..MaxRuns : FindComputer(k)
  \/ \E k \in 1..MaxRuns : SaveAvailable(k)
  \/ \E k \in 1..MaxRuns : NotifyOwner(k)
  \/ \E k \in 1..MaxRuns : NotifyAdmins(k)

SpecSweep == Init /\ [][NextSweep]_vars

\* Every store call resolves: a run that awaits one takes its next step.
SpecSweepLive ==
  Init /\ [][NextSweep]_vars /\ \A k \in 1..MaxRuns : WF_vars(RunStep(k))

(***************************************************************************)
(* One run of the sweeper interleaved with the admin's decisions: the      *)
(* timer starts a run when the previous one has returned, and an admin     *)
(* rejects or cancels bookings while the run is in flight.                 *)
(***************************************************************************)
DecideSweep ==
  /\ ~NoRunActive
  /\ \E id \in BookingIds,
        body \in { <<"cancelled", Undefined>>, <<"rejected", "r1">> } :
       SetBookingStatus("a1", id, body[1], body[2])

TimerFiresAlone == NoRunActive /\ TimerFires

NextSweepDecide ==
  \/ CreateSweep
  \/ ApproveSweep
  \/ TickSweep
  \/ TimerFiresAlone
  \/ DecideSweep
  \/ \E k \in 1..MaxRuns : FindExpired(k)
  \/ \E k \in 1..MaxRuns : SaveCompleted(k)
  \/ \E k \in 1..MaxRuns : FindComputer(k)
  \/ \E k \in 1..MaxRuns : SaveAvailable(k)
  \/ \E k \in 1..MaxRuns : NotifyOwner(k)
  \/ \E k \in 1..MaxRuns : NotifyAdmins(k)

SpecSweepDecide == Init /\ [][NextSweepDecide]_vars

(***************************************************************************)
(* Requests sent to the server by a client other than the booking form:    *)
(* any dates and times of day in the body of a creation, and any new       *)
(* times and end date in the body of an admin's reschedule.                *)
(***************************************************************************)
CreateDirect ==
  \E sd \in Dates, ed \in Dates, st \in Times, et \in Times :
    CreateBooking("u1", "c1", sd, ed, st, et, "test")

ApproveDirect ==
  \E id \in BookingIds : SetBookingStatus("a1", id, "approved", Undefined)

UpdateTimeDirect ==
  \E id \in BookingIds, st \in Opt(Times), et \in Opt(Times),
     ed \in Opt(Dates) :
    UpdateBookingTime("a1", id, Undefined, st, et, ed)

NextDirect ==
  \/ CreateDirect
  \/ ApproveDirect
  \/ UpdateTimeDirect

SpecDirect == Init /\ [][NextDirect]_vars

(***************************************************************************)
(* The admin's list of current bookings, asked for at any moment while     *)
(* bookings are created and approved and time passes.                      *)
(***************************************************************************)
Current == \E actor \in {"a1", "u1"} : GetCurrentBookings(actor)

NextCurrent ==
  \/ CreateLive
  \/ ApproveFault
  \/ Current
  \/ Tick

SpecCurrent == Init /\ [][NextCurrent]_vars

(***************************************************************************)
(* Requests from any bearer of a valid token: users, admins, and a uid     *)
(* with no User document.                                                  *)
(***************************************************************************)
Actors == {"u1", "a1", NoSuchUser}

CreateAny ==
  \/ \E actor \in {"u1", "a1"}, computerId \in Computers :
       CreateBooking(actor, computerId, 1, 1, 0, 1, "test")
  \/ \E actor \in Actors, computerId \in {NoSuchComputer, Undefined},
        reason \in {"test", ""} :
       CreateBooking(actor, computerId, 1, 1, 0, 1, reason)

StatusAny ==
  \/ \E id \in BookingIds, body \in RaceBodies :
       SetBookingStatus("a1", id, body[1], body[2])
  \/ \E actor \in Actors \ {"a1"}, id \in BookingIds, status \in Statuses,
        rejectionReason \in {Undefined, "r1"} :
       SetBookingStatus(actor, id, status, rejectionReason)

UpdateTimeAny ==
  \/ \E id \in BookingIds, computerId \in Computers :
       UpdateBookingTime("a1", id, computerId, << >>, << >>, << >>)
  \/ \E actor \in Actors \ {"a1"}, id \in BookingIds,
        computerId \in Computers \cup {Undefined}, ed \in Opt({MaxDate}) :
       UpdateBookingTime(actor, id, computerId, << >>, << >>, ed)

NextAccess ==
  \/ CreateAny
  \/ StatusAny
  \/ UpdateTimeAny

SpecAccess == Init /\ [][NextAccess]_vars

(***************************************************************************)
(* The booking form: the user has filled in the fields in some way and     *)
(* presses the submit button, once or again.                               *)
(***************************************************************************)
FormDays == 0..MaxDay
FormTimes == {0, MinutesPerHour - 1, MinutesPerHour, MinutesPerDay - 1}

Forms ==
  [computer : {"c1", NoSuchComputer, ""},
   startDate : Opt(FormDays), endDate : Opt(FormDays),
   startTime : Opt(FormTimes), endTime : Opt(FormTimes),
   reason : {"test", " "}, details : BOOLEAN]

InitForm ==
  /\ bookings = << >>
  /\ computers = [c \in Computers |-> "available"]
  /\ newNotifications = << >>
  /\ now = [date |-> 1, time |-> 0]
  /\ req = [op |-> "none", actor |-> Undefined, id |-> 0, status |-> Undefined,
            reason |-> Undefined, result |-> "none", count |-> 0,
            computerId |-> Undefined, oldComputerId |-> Undefined,
            faults |-> << >>, seq |-> 0]
  /\ inflight = << >>
  /\ form \in Forms
  /\ checkInterval = Timer
  /\ runs = [k \in 1..MaxRuns |-> IdleRun]

Submit == HandleSubmit("u1")

NextForm == Submit

SpecForm == InitForm /\ [][NextForm]_vars


(***************************************************************************)
Terminal == {"rejected", "cancelled", "completed"}

\* The interval part of the sweep's query: the booking has elapsed.
Elapsed(b) ==
  \/ b.startDate = currentDate /\ b.endDate = currentDate
     /\ b.endTime < currentTime
  \/ b.endDate < currentDate

\* The booking's end date and end time lie before the clock.
EndPassed(b) ==
  \/ b.endDate < currentDate
  \/ b.endDate = currentDate /\ b.endTime < currentTime

\* C1: after any sequence of create, approve, reject, cancel and expire
\* operations, a resource is booked if and only if some booking on it is
\* approved and has not elapsed according to the sweep's predicate.
C1_BookedIffActiveApproved ==
  req.op \in {"create", "status", "sweep"} =>
    \A c \in Computers :
      computers[c] = "booked" <=>
        \E i \in 1..Len(bookings) :
          /\ bookings[i].computerId = c
          /\ bookings[i].status = "approved"
          /\ ~Elapsed(bookings[i])

\* C2: once a booking is rejected, cancelled or completed, no later
\* operation changes its status or any other field of it.
C2_TerminalIsFinal ==
  [][\A i \in 1..Len(bookings) :
       bookings[i].status \in Terminal => bookings'[i] = bookings[i]]_vars

\* C3: an approve request on a booking that is not pending has no effect: it
\* does not set the resource to booked and sends the owner no notification.
C3_ApproveOnlyFromPending ==
  [][(/\ req'.op = "status"
      /\ req'.status = "approved"
      /\ Exists(req'.id)
      /\ bookings[req'.id].status # "pending")
     => (computers' = computers /\ newNotifications' = << >>)]_vars

\* C4: a booking carries a rejection reason if and only if it is rejected.
C4_ReasonIffRejected ==
  \A i \in 1..Len(bookings) :
    bookings[i].rejectionReason # Undefined <=> bookings[i].status = "rejected"

\* C5: an admin's request to reject with an empty or absent rejection reason
\* fails with MissingRejectionReason, and such a request (whoever sends it)
\* changes no booking, no resource status and records no notification.
C5_RejectNeedsReason ==
  [][(/\ req'.op = "status"
      /\ req'.status = "rejected"
      /\ req'.reason \in {Undefined, ""})
     => (/\ IsAdmin(req'.actor) => req'.result = "MissingRejectionReason"
         /\ req'.result # "OK"
         /\ bookings' = bookings
         /\ computers' = computers
         /\ newNotifications' = << >>)]_vars

C5_Witness ==
  /\ req.op = "status" /\ req.status = "rejected" /\ req.reason = ""
  /\ req.result = "MissingRejectionReason"
  /\ Exists(req.id) /\ bookings[req.id].status = "pending"

\* C6: a reject or cancel sets the booking's resource to available exactly
\* when no other approved booking references that resource; otherwise every
\* resource status is left as it was.
C6_ReleaseUnlessOtherApproved ==
  [][(/\ req'.op = "status"
      /\ req'.result = "OK"
      /\ req'.status \in {"rejected", "cancelled"})
     => LET c == bookings[req'.id].computerId
            others == {j \in 1..Len(bookings) \ {req'.id} :
                         /\ bookings[j].computerId = c
                         /\ bookings[j].status = "approved"}
        IN /\ others = {} => computers'[c] = "available"
           /\ others # {} => computers'[c] = computers[c]
           /\ \A d \in Computers \ {c} : computers'[d] = computers[d]]_vars

C6_Witness ==
  /\ req.op = "status" /\ req.result = "OK"
  /\ req.status \in {"rejected", "cancelled"}
  /\ computers[bookings[req.id].computerId] = "booked"
  /\ \E j \in 1..Len(bookings) :
       /\ j # req.id
       /\ bookings[j].computerId = bookings[req.id].computerId
       /\ bookings[j].status = "approved"

\* C7: an admin's approve of a pending booking on resource R succeeds, sets
\* the booking approved and R booked, and records exactly one notification,
\* for the booking's owner, of severity success.
C7_ApprovePending ==
  [][(/\ req'.op = "status"
      /\ req'.status = "approved"
      /\ IsAdmin(req'.actor)
      /\ Exists(req'.id)
      /\ bookings[req'.id].status = "pending")
     => (/\ req'.result = "OK"
         /\ bookings'[req'.id].status = "approved"
         /\ computers'[bookings[req'.id].computerId] = "booked"
         /\ Len(newNotifications') = 1
         /\ newNotifications'[1].userId = bookings[req'.id].userId
         /\ newNotifications'[1].type = "success"
         /\ newNotifications'[1].bookingId = req'.id)]_vars

C7_Witness ==
  /\ req.op = "status" /\ req.status = "approved" /\ req.result = "OK"
  /\ bookings[req.id].status = "approved"
  /\ bookings[req.id].rejectionReason = Undefined
  /\ computers[bookings[req.id].computerId] = "booked"
  /\ Len(newNotifications) = 1
  /\ newNotifications[1].type = "success"

\* C8: a resource in maintenance stays in maintenance across every engine
\* operation.
C8_MaintenanceKept ==
  [][\A c \in Computers :
       computers[c] = "maintenance" => computers'[c] = "maintenance"]_vars

\* C9: a sweep that runs after the end of an approved booking on a booked
\* resource R completes the booking, makes R available and records one
\* expiration notification for the owner and one for every admin.
C9_SweepCompletesEnded ==
  [][req'.op = "sweep" =>
       \A i \in 1..Len(bookings) :
         (/\ bookings[i].status = "approved"
          /\ EndPassed(bookings[i])
          /\ computers[bookings[i].computerId] = "booked")
         => (/\ bookings'[i].status = "completed"
             /\ computers'[bookings[i].computerId] = "available"
             /\ Cardinality({k \in 1..Len(newNotifications') :
                  /\ newNotifications'[k].bookingId = i
                  /\ newNotifications'[k].title = "Booking Session Ended"
                  /\ newNotifications'[k].userId = bookings[i].userId}) = 1
             /\ Cardinality({k \in 1..Len(newNotifications') :
                  /\ newNotifications'[k].bookingId = i
                  /\ newNotifications'[k].title = "Computer Available"})
                = Len(AdminUsers))]_vars

\* C10: a sweep that directly follows a sweep, with no clock advance and no
\* other operation in between, selects no booking, changes no booking or
\* resource status and records no notification.
C10_SecondSweepIdle ==
  [][(req.op = "sweep" /\ req'.op = "sweep")
     => (/\ req'.count = 0
         /\ bookings' = bookings
         /\ computers' = computers
         /\ newNotifications' = << >>)]_vars

C10_Witness ==
  /\ req.op = "sweep" /\ req.count = 0
  /\ newNotifications = << >>
  /\ \E i \in 1..Len(bookings) :
       bookings[i].status = "completed" /\ Elapsed(bookings[i])

\* C12: the sweep selects an approved booking exactly when its end date is
\* today and its end time is earlier than the current time, or its end date is
\* earlier than today, whatever its start date.
C12_SelectsExactlyEnded ==
  \A i \in 1..Len(bookings) :
    bookings[i].status = "approved" =>
      (i \in ExpiredIds(bookings) <=> EndPassed(bookings[i]))

\* C13: a sweep leaves every booking that is not approved, or whose interval
\* has not elapsed, as it was, field by field, stores and deletes no booking,
\* and leaves the status of every resource that only such bookings reference.
C13_SweepFrame ==
  [][req'.op = "sweep" =>
       LET kept == {i \in 1..Len(bookings) :
                      bookings[i].status # "approved" \/ ~Elapsed(bookings[i])}
       IN /\ Len(bookings') = Len(bookings)
          /\ \A i \in kept : bookings'[i] = bookings[i]
          /\ \A i \in 1..Len(bookings) \ kept :
               bookings'[i] = [bookings[i] EXCEPT !.status = bookings'[i].status]
          /\ \A c \in Computers :
               (\A i \in 1..Len(bookings) :
                  bookings[i].computerId = c => i \in kept)
               => computers'[c] = computers[c]]_vars

\* A sweep completed one booking next to an approved booking whose interval
\* has not elapsed, on a resource that is still booked.
C13_Witness ==
  /\ req.op = "sweep" /\ req.count = 1
  /\ \E i, j \in 1..Len(bookings) :
       /\ bookings[i].status = "completed"
       /\ bookings[j].status = "approved" /\ ~Elapsed(bookings[j])
       /\ computers[bookings[j].computerId] = "booked"

\* The last request rescheduled booking i.
Rescheduled(i) ==
  req.op = "time" /\ req.id = i /\ req.result = "OK"

\* C11: with the sweeper's timer firing again and again and time passing,
\* every approved booking whose end date and end time have passed is
\* eventually completed, unless it is rejected, cancelled or rescheduled
\* before that.
C11_EndedEventuallyCompleted ==
  \A i \in BookingIds :
    (/\ Exists(i)
     /\ bookings[i].status = "approved"
     /\ EndPassed(bookings[i]))
    ~> (/\ Exists(i)
        /\ \/ bookings[i].status \in Terminal
           \/ Rescheduled(i))

\* A sweep completed a multi-day booking (on the day after its end date).
C11_Witness ==
  /\ req.op = "sweep" /\ req.count >= 1
  /\ \E i \in 1..Len(bookings) :
       /\ bookings[i].status = "completed"
       /\ bookings[i].startDate < bookings[i].endDate
       /\ currentDate > bookings[i].endDate

\* The notifications of the last operation that concern booking i.
NotifsOf(ns, i) == {k \in 1..Len(ns) : ns[k].bookingId = i}

\* C14: in a sweep where store calls fail for some of the selected bookings,
\* every selected booking whose own store calls succeed is completed, its
\* booked resource is released and its owner and every admin are notified;
\* and the sweep returns normally whatever fails, the query included.
C14_SweepIsolatesFailures ==
  [][(req'.op = "sweep" /\ req'.faults # << >>) =>
       /\ req'.result = "OK"
       /\ req'.faults[0] = NoFault =>
            \A i \in 1..Len(bookings) :
              (/\ bookings[i].status = "approved"
               /\ Elapsed(bookings[i])
               /\ req'.faults[i] = NoFault)
              => (/\ bookings'[i].status = "completed"
                  /\ computers[bookings[i].computerId] = "booked"
                       => computers'[bookings[i].computerId] = "available"
                  /\ Cardinality(NotifsOf(newNotifications', i))
                       = 1 + Len(AdminUsers))]_vars

\* The save of booking 1 failed and booking 2 was completed in the same run.
C14_Witness ==
  /\ req.op = "sweep" /\ req.count = 2
  /\ req.faults # << >>
  /\ req.faults[1] # NoFault /\ req.faults[2] = NoFault
  /\ bookings[1].status = "approved"
  /\ bookings[2].status = "completed"
  /\ Cardinality(NotifsOf(newNotifications, 2)) = 1 + Len(AdminUsers)

\* Two requests were served with their store calls interleaved, and both
\* have been answered.
BothDone ==
  /\ Len(inflight) = 2
  /\ \A k \in 1..2 : inflight[k].pc = "done" /\ Exists(inflight[k].id)

\* C15: when two status requests on the same booking, both of which loaded
\* it as pending, have been answered, the booking's resource is booked if the
\* booking is approved, is not booked for this booking if it is not, and the
\* owner has been sent at most one notification about the booking.
C15_SameBookingRace ==
  (/\ BothDone
   /\ inflight[1].id = inflight[2].id
   /\ inflight[1].status # inflight[2].status
   /\ \A k \in 1..2 : inflight[k].loaded[1].status = "pending")
  => LET i == inflight[1].id
         c == bookings[i].computerId
     IN /\ bookings[i].status = "approved" => computers[c] = "booked"
        /\ computers[c] = "booked" =>
             \/ bookings[i].status = "approved"
             \/ OtherApproved(bookings, i, c)
        /\ Cardinality(NotifsOf(newNotifications, i)) <= 1

\* C16: when a reject or cancel of booking A and an approve of another
\* booking B on the same resource have both been answered, whatever the
\* order of their store calls, the resource is booked.
C16_ReleaseKeepsApproval ==
  (/\ BothDone
   /\ inflight[1].id # inflight[2].id
   /\ bookings[inflight[1].id].computerId = bookings[inflight[2].id].computerId
   /\ \E k \in 1..2 :
        /\ inflight[k].status \in {"rejected", "cancelled"}
        /\ inflight[3 - k].status = "approved")
  => computers[bookings[inflight[1].id].computerId] = "booked"

\* The instant (d1, t1) lies before the instant (d2, t2).
Before(d1, t1, d2, t2) == d1 < d2 \/ (d1 = d2 /\ t1 < t2)

\* The intervals of two bookings share more than an end point.
Overlap(a, b) ==
  /\ Before(a.startDate, a.startTime, b.endDate, b.endTime)
  /\ Before(b.startDate, b.startTime, a.endDate, a.endTime)

\* C17: any two distinct approved bookings on the same resource have
\* intervals that do not overlap.
C17_ApprovedDoNotOverlap ==
  \A i, j \in 1..Len(bookings) :
    (/\ i # j
     /\ bookings[i].status = "approved"
     /\ bookings[j].status = "approved"
     /\ bookings[i].computerId = bookings[j].computerId)
    => ~Overlap(bookings[i], bookings[j])

\* The uids of the users whose role is admin.
AdminUids == {u.firebaseUid : u \in {v \in Users : v.role = "admin"}}

\* C18: a successful create appends one pending booking owned by the
\* requesting actor, records exactly one notification of type info for each
\* admin and none for anyone else, and changes no resource status and no
\* booking already stored.
C18_CreateEffect ==
  [][(req'.op = "create" /\ req'.result = "Created") =>
       /\ Len(bookings') = Len(bookings) + 1
       /\ \A i \in 1..Len(bookings) : bookings'[i] = bookings[i]
       /\ bookings'[Len(bookings')].status = "pending"
       /\ bookings'[Len(bookings')].userId = req'.actor
       /\ bookings'[Len(bookings')].computerId = req'.computerId
       /\ computers' = computers
       /\ Len(newNotifications') = Cardinality(AdminUids)
       /\ \A a \in AdminUids :
            \E k \in 1..Len(newNotifications') :
              /\ newNotifications'[k].userId = a
              /\ newNotifications'[k].type = "info"
              /\ newNotifications'[k].bookingId = Len(bookings')]_vars

\* An admin created the second booking next to a booking already decided.
C18_Witness ==
  /\ req.op = "create" /\ req.result = "Created" /\ req.actor = "a1"
  /\ Len(bookings) = 2
  /\ bookings[1].status = "approved" /\ bookings[1].userId = "u1"
  /\ bookings[2].status = "pending" /\ bookings[2].userId = "a1"
  /\ Len(newNotifications) = 2

\* C19: a create request, complete in its other fields, whose resource id
\* names no resource fails with ResourceNotFound, stores no booking, records
\* no notification and changes no resource status.
C19_CreateUnknownResource ==
  [][(/\ req'.op = "create"
      /\ Truthy(req'.computerId)
      /\ req'.computerId \notin Computers
      /\ Truthy(req'.reason))
     => (/\ req'.result = "ResourceNotFound"
         /\ bookings' = bookings
         /\ computers' = computers
         /\ newNotifications' = << >>)]_vars

C19_Witness ==
  /\ req.op = "create" /\ req.computerId = NoSuchComputer
  /\ req.result = "ResourceNotFound"
  /\ Len(bookings) = 1
  /\ newNotifications = << >>

\* C20: a status request or a reschedule request from an actor who is not an
\* admin fails with Forbidden, whatever the booking, the target status and
\* the other fields of the body, and changes no booking, no resource status
\* and records no notification.
C20_NonAdminForbidden ==
  [][(/\ req'.op \in {"status", "time"}
      /\ req'.actor \notin AdminUids)
     => (/\ req'.result = "Forbidden"
         /\ bookings' = bookings
         /\ computers' = computers
         /\ newNotifications' = << >>)]_vars

\* The owner of a pending booking asked to approve it and was refused.
C20_Witness ==
  /\ req.op = "status" /\ req.actor = "u1" /\ req.status = "approved"
  /\ req.result = "Forbidden"
  /\ Exists(req.id)
  /\ bookings[req.id].userId = "u1"
  /\ bookings[req.id].status = "pending"

\* C21: an admin's status request whose target is none of approved, rejected
\* and cancelled fails with InvalidStatus and changes no booking, no resource
\* status and records no notification; and a booking becomes completed only
\* in a step of the expiration sweep.
C21_InvalidTargetRefused ==
  [][/\ (/\ req'.op = "status"
         /\ req'.actor \in AdminUids
         /\ req'.status \notin {"approved", "rejected", "cancelled"})
        => (/\ req'.result = "InvalidStatus"
            /\ bookings' = bookings
            /\ computers' = computers
            /\ newNotifications' = << >>)
     /\ \A i \in 1..Len(bookings') :
          (/\ bookings'[i].status = "completed"
           /\ i \in 1..Len(bookings) => bookings[i].status # "completed")
          => req'.op = "sweep"]_vars

\* An admin asked for status completed on an approved booking that has
\* elapsed, and the booking is still approved.
C21_Witness ==
  /\ req.op = "status" /\ req.actor = "a1" /\ req.status = "completed"
  /\ req.result = "InvalidStatus"
  /\ Exists(req.id)
  /\ bookings[req.id].status = "approved"
  /\ EndPassed(bookings[req.id])

\* C28: the notification of a cancel goes to the booking's owner with type
\* info, that of a reject with type error, that of an approve with type
\* success.
C28_NotificationSeverity ==
  [][(req'.op = "status" /\ req'.result = "OK") =>
       /\ Len(newNotifications') = 1
       /\ newNotifications'[1].userId = bookings[req'.id].userId
       /\ newNotifications'[1].type =
            CASE req'.status = "approved" -> "success"
              [] req'.status = "rejected" -> "error"
              [] req'.status = "cancelled" -> "info"]_vars

\* C29: a cancel request from a user who is not an admin sets the booking to
\* cancelled when the user owns it and it is pending, and changes no booking
\* otherwise (booking of another user, or booking approved, rejected,
\* cancelled or completed).
C29_OwnerCancelsPending ==
  [][(/\ req'.op = "status"
      /\ req'.status = "cancelled"
      /\ req'.actor \notin AdminUids
      /\ Exists(req'.id))
     => IF /\ bookings[req'.id].userId = req'.actor
           /\ bookings[req'.id].status = "pending"
        THEN /\ bookings'[req'.id].status = "cancelled"
             /\ \A i \in 1..Len(bookings) \ {req'.id} :
                  bookings'[i] = bookings[i]
        ELSE bookings' = bookings]_vars

\* C30: an admin's reschedule of a booking that is not approved fails with
\* InvalidState and changes no booking and no resource status; a reschedule
\* that succeeds was made on an approved booking and leaves it approved.
C30_RescheduleOnlyApproved ==
  [][(req'.op = "time" /\ req'.actor \in AdminUids /\ Exists(req'.id)) =>
       /\ bookings[req'.id].status # "approved"
            => (/\ req'.result = "InvalidState"
                /\ bookings' = bookings
                /\ computers' = computers
                /\ newNotifications' = << >>)
       /\ req'.result = "OK"
            => (/\ bookings[req'.id].status = "approved"
                /\ bookings'[req'.id].status = "approved")]_vars

\* An admin asked to move a rejected booking to another computer.
C30_Witness ==
  /\ req.op = "time" /\ req.actor = "a1" /\ req.result = "InvalidState"
  /\ req.computerId \in Computers
  /\ Exists(req.id)
  /\ bookings[req.id].status = "rejected"
  /\ bookings[req.id].computerId # req.computerId

\* C31: a reschedule that moves an approved booking from its resource A to a
\* different existing resource B marks B booked and the booking references B;
\* A is available afterwards exactly when no other approved booking references
\* A, and keeps its status when one does.  A reschedule to a resource that
\* does not exist fails with ResourceNotFound and changes no booking and no
\* resource status.
C31_MoveReleasesAndBooks ==
  [][(/\ req'.op = "time" /\ req'.actor \in AdminUids /\ Exists(req'.id)
      /\ bookings[req'.id].status = "approved"
      /\ Truthy(req'.computerId)
      /\ req'.computerId # bookings[req'.id].computerId) =>
       LET A == bookings[req'.id].computerId
           B == req'.computerId
           others == \E j \in 1..Len(bookings) :
                       /\ j # req'.id
                       /\ bookings[j].status = "approved"
                       /\ bookings[j].computerId = A
       IN IF B \in Computers
          THEN /\ req'.result = "OK"
               /\ computers'[B] = "booked"
               /\ bookings'[req'.id].computerId = B
               /\ others => computers'[A] = computers[A]
               /\ (computers'[A] = "available") <=> ~others
               /\ \A c \in Computers \ {A, B} : computers'[c] = computers[c]
          ELSE /\ req'.result = "ResourceNotFound"
               /\ bookings' = bookings
               /\ computers' = computers]_vars

\* An admin moved an approved booking away from a resource that another
\* approved booking still references: the old resource is still booked.
C31_Witness ==
  /\ req.op = "time" /\ req.actor = "a1" /\ req.result = "OK"
  /\ Exists(req.id)
  /\ req.oldComputerId \in Computers
  /\ req.computerId \in Computers \ {req.oldComputerId}
  /\ bookings[req.id].computerId = req.computerId
  /\ computers[req.computerId] = "booked"
  /\ computers[req.oldComputerId] = "booked"
  /\ \E j \in 1..Len(bookings) :
       /\ j # req.id
       /\ bookings[j].status = "approved"
       /\ bookings[j].computerId = req.oldComputerId

\* The rejection reasons of the validator.
Reasons ==
  { MissingFields, ClosureDayStart, ClosureDayEnd, EndBeforeStart,
    DurationTooLong, EndBeforeStartInstant, DurationTooShort }

\* Every required field of the form is filled in.
Complete(f) ==
  /\ f.computer # "" /\ f.reason \notin {"", " "} /\ f.details
  /\ f.startDate # << >> /\ f.endDate # << >>
  /\ f.startTime # << >> /\ f.endTime # << >>

OnSunday(day) == day % 7 = 0

\* The start and end instants of a complete form, in minutes.
StartInstant(f) == f.startDate[1] * 1440 + f.startTime[1]
EndInstant(f) == f.endDate[1] * 1440 + f.endTime[1]

\* The form is submitted and nothing is stored.
Refused(reason) ==
  /\ req'.result = reason
  /\ bookings' = bookings
  /\ computers' = computers
  /\ newNotifications' = << >>

\* C22: a creation request submitted with every field present, both dates
\* on days other than Sunday and the end date earlier than the start date
\* fails with EndBeforeStart, and no booking is stored.
C22_EndDateBeforeStartDate ==
  [][(/\ req'.op = "submit"
      /\ Complete(form)
      /\ ~OnSunday(form.startDate[1]) /\ ~OnSunday(form.endDate[1])
      /\ form.endDate[1] < form.startDate[1])
     => Refused(EndBeforeStart)]_vars

C22_Witness ==
  /\ req.op = "submit" /\ req.result = EndBeforeStart
  /\ Complete(form)
  /\ form.endDate[1] + 1 = form.startDate[1]
  /\ form.endTime[1] > form.startTime[1]
  /\ bookings = << >>

\* C23: a creation request for a single calendar day (not a Sunday, every
\* field present) whose end instant is at or after its start instant and
\* less than 60 minutes after it fails with DurationTooShort and stores no
\* booking; with exactly 60 minutes the validator accepts it, and the booking
\* is stored when its resource exists.
C23_SameDayMinimumHour ==
  [][(/\ req'.op = "submit"
      /\ Complete(form)
      /\ form.startDate[1] = form.endDate[1]
      /\ ~OnSunday(form.startDate[1])
      /\ EndInstant(form) >= StartInstant(form))
     => /\ EndInstant(form) - StartInstant(form) < 60
             => Refused(DurationTooShort)
        /\ EndInstant(form) - StartInstant(form) = 60
             => /\ req'.result \notin Reasons
                /\ form.computer \in Computers
                     => /\ req'.result = "Created"
                        /\ Len(bookings') = Len(bookings) + 1]_vars

\* A request of 59 minutes was refused.
C23_Witness ==
  /\ req.op = "submit" /\ req.result = DurationTooShort
  /\ Complete(form)
  /\ form.startDate = form.endDate
  /\ EndInstant(form) - StartInstant(form) = 59
  /\ bookings = << >>

\* C24: a creation request whose end date is later than its start date, with
\* every field present, no date on a Sunday and at most 7 days, is never
\* refused with DurationTooShort, whatever its times of day.
C24_MultiDayNoMinimum ==
  [][(/\ req'.op = "submit"
      /\ Complete(form)
      /\ ~OnSunday(form.startDate[1]) /\ ~OnSunday(form.endDate[1])
      /\ form.endDate[1] > form.startDate[1]
      /\ form.endDate[1] - form.startDate[1] + 1 <= 7)
     => req'.result # DurationTooShort]_vars

\* A booking from one minute before midnight to midnight was stored.
C24_Witness ==
  /\ req.op = "submit" /\ req.result = "Created"
  /\ Len(bookings) = 1
  /\ bookings[1].endDate = bookings[1].startDate + 1
  /\ bookings[1].startTime = 1439 /\ bookings[1].endTime = 0

\* C25: a creation request (every field present, no date on a Sunday) whose
\* number of days, both ends included, is greater than 7 fails with
\* DurationTooLong and stores no booking; one of exactly 7 days is not
\* refused with DurationTooLong.
C25_AtMostSevenDays ==
  [][(/\ req'.op = "submit"
      /\ Complete(form)
      /\ ~OnSunday(form.startDate[1]) /\ ~OnSunday(form.endDate[1])
      /\ form.endDate[1] >= form.startDate[1])
     => /\ form.endDate[1] - form.startDate[1] + 1 > 7
             => Refused(DurationTooLong)
        /\ form.endDate[1] - form.startDate[1] + 1 = 7
             => req'.result # DurationTooLong]_vars

\* A request of 8 days was refused.
C25_Witness ==
  /\ req.op = "submit" /\ req.result = DurationTooLong
  /\ Complete(form)
  /\ form.endDate[1] - form.startDate[1] + 1 = 8
  /\ bookings = << >>

\* C26: a creation request with every field present whose start date is a
\* Sunday fails with ClosureDayStart, and one whose end date is a Sunday and
\* whose start date is not fails with ClosureDayEnd, whatever the order of
\* the dates, the number of days and the times; no booking is stored.
C26_ClosedOnSunday ==
  [][(req'.op = "submit" /\ Complete(form)) =>
       /\ OnSunday(form.startDate[1]) => Refused(ClosureDayStart)
       /\ (~OnSunday(form.startDate[1]) /\ OnSunday(form.endDate[1]))
            => Refused(ClosureDayEnd)]_vars

\* A request that starts on a Sunday and ends before it starts was refused.
C26_Witness ==
  /\ req.op = "submit" /\ req.result = ClosureDayStart
  /\ Complete(form)
  /\ form.startDate[1] = 7
  /\ form.endDate[1] < form.startDate[1]
  /\ bookings = << >>

\* The rules of the validator, each stated on its own: the rule is broken by
\* the form f.
Broken(rule, f) ==
  CASE rule = 1 -> ~Complete(f)
    [] rule = 2 -> Complete(f) /\ OnSunday(f.startDate[1])
    [] rule = 3 -> Complete(f) /\ OnSunday(f.endDate[1])
    [] rule = 4 -> Complete(f) /\ f.endDate[1] < f.startDate[1]
    [] rule = 5 -> Complete(f) /\ f.endDate[1] - f.startDate[1] + 1 > 7
    [] rule = 6 -> Complete(f) /\ EndInstant(f) < StartInstant(f)
    [] rule = 7 -> /\ Complete(f)
                   /\ f.endDate[1] = f.startDate[1]
                   /\ EndInstant(f) - StartInstant(f) < 60

ReasonOf ==
  << MissingFields, ClosureDayStart, ClosureDayEnd, EndBeforeStart,
     DurationTooLong, EndBeforeStartInstant, DurationTooShort >>

\* C27: the reason reported for a submitted form is that of the first rule
\* it breaks in the order MissingFields, ClosureDayStart, ClosureDayEnd,
\* EndBeforeStart, DurationTooLong, EndBeforeStartInstant, DurationTooShort;
\* a form that breaks no rule is reported none of them; and the seven
\* reasons are distinct.
C27_FirstBrokenRuleReported ==
  [][req'.op = "submit" =>
       LET broken == {r \in 1..7 : Broken(r, form)}
       IN /\ broken = {} => req'.result \notin Reasons
          /\ \A r \in broken :
               (\A q \in broken : r <= q) => req'.result = ReasonOf[r]
          /\ Cardinality(Reasons) = 7]_vars

\* A form whose end date is a Sunday before its start date, less than an
\* hour long by its times, was refused for the Sunday.
C27_Witness ==
  /\ req.op = "submit" /\ req.result = ClosureDayEnd
  /\ Cardinality({r \in 1..7 : Broken(r, form)}) >= 3
  /\ Broken(3, form) /\ Broken(4, form) /\ Broken(6, form)

\* C32: once stop() has been called the timer starts no run and the handle
\* stays null, so that a second stop() changes nothing; a run that is in
\* flight when the timer is stopped still runs to its end.
C32_StopKeepsRunsInFlight ==
  /\ [][checkInterval = Null =>
         /\ checkInterval' = Null
         /\ \A k \in 1..MaxRuns : ~Active(k) => ~Active(k)']_vars
  /\ \A k \in 1..MaxRuns :
       (checkInterval = Null /\ Active(k)) ~> (runs[k].pc = "done")

\* stop() was called while a run had saved a booking as completed and had
\* not yet released its computer.
C32_Witness ==
  /\ checkInterval = Null
  /\ \E k \in 1..MaxRuns :
       /\ runs[k].pc = "saveComputer"
       /\ bookings[DocId(k)].status = "completed"
       /\ computers[Doc(k).computerId] = "booked"

\* C33: a sweep makes available the booked resource of every booking it
\* expires, whether or not another approved booking that has not ended still
\* references the resource.
C33_ExpireReleasesUnconditionally ==
  [][req'.op = "sweep" =>
       \A i \in ExpiredIds(bookings) :
         computers[bookings[i].computerId] = "booked"
           => computers'[bookings[i].computerId] = "available"]_vars

\* A sweep expired one booking of a resource that another approved booking,
\* not yet ended, references: the resource is available.
C33_Witness ==
  /\ req.op = "sweep" /\ req.count = 1
  /\ \E i, j \in 1..Len(bookings) :
       /\ i # j
       /\ bookings[i].status = "completed"
       /\ bookings[j].status = "approved"
       /\ ~IsExpired(bookings[j])
       /\ bookings[j].computerId = bookings[i].computerId
       /\ computers[bookings[i].computerId] = "available"

\* C34: a booking that an admin has set to rejected or cancelled is never
\* overwritten to completed, whatever the interleaving of the admin's request
\* with a sweep run that selected the booking while it was approved.
C34_SweepWritesOnlyApproved ==
  [][\A i \in 1..Len(bookings) :
       bookings[i].status \in {"rejected", "cancelled"}
         => bookings'[i].status # "completed"]_vars

\* C35: whatever the overlap of the sweep runs, the notifications sent since
\* the first of the runs in flight started hold, for every booking, at most
\* one "Booking Session Ended" for its owner and at most one "Computer
\* Available" for each admin.
C35_ExpiredAtMostOnce ==
  \A i \in BookingIds :
    /\ Cardinality({k \in NotifsOf(newNotifications, i) :
          newNotifications[k].title = "Booking Session Ended"}) <= 1
    /\ \A a \in 1..Len(AdminUsers) :
         Cardinality({k \in NotifsOf(newNotifications, i) :
           /\ newNotifications[k].title = "Computer Available"
           /\ newNotifications[k].userId = AdminUsers[a].id}) <= 1

\* C36: every stored booking satisfies the interval rules of the validator,
\* a date being a day number and a time an hour of the day: its start
\* instant is not after its end instant, it spans at most seven days counting
\* both ends, neither its start date nor its end date is a Sunday, and when
\* it starts and ends on the same day it lasts at least one hour.
C36_StoredIntervalsValid ==
  \A i \in 1..Len(bookings) :
    LET b == bookings[i]
    IN /\ ~Before(b.endDate, b.endTime, b.startDate, b.startTime)
       /\ b.endDate - b.startDate + 1 <= MaxDurationInDays
       /\ GetDay(b.startDate) # Sunday
       /\ GetDay(b.endDate) # Sunday
       /\ b.startDate = b.endDate => b.endTime - b.startTime >= 1

\* C37: the count a sweep run reports is the number of bookings that the run
\* changed to completed; a booking whose expiration failed is not counted.
C37_CountIsCompleted ==
  [][req'.op = "sweep" =>
       req'.count = Cardinality({i \in 1..Len(bookings) :
                       /\ bookings[i].status # "completed"
                       /\ bookings'[i].status = "completed"})]_vars

\* A resource that is booked while it has bookings and all of them are
\* completed.
HeldByCompleted(c) ==
  /\ computers[c] = "booked"
  /\ \E i \in 1..Len(bookings) : bookings[i].computerId = c
  /\ \A i \in 1..Len(bookings) :
       bookings[i].computerId = c => bookings[i].status = "completed"

\* C38: a resource left booked by an expiration that failed between the save
\* of the booking as completed and the save of the resource as available is
\* released eventually, given that later sweeps keep running: no resource
\* stays booked forever while all its bookings are completed.
C38_ReleasedEventually ==
  \A c \in Computers : HeldByCompleted(c) ~> ~HeldByCompleted(c)

\* C39: at every date and time, an approved booking is either selected as
\* expired by the sweep's query or returned as current by the admin's list of
\* current bookings, and never both.
C39_ExpiredAndCurrentPartition ==
  \A i \in 1..Len(bookings) :
    bookings[i].status = "approved"
      => /\ IsExpired(bookings[i]) \/ IsCurrent(bookings[i])
         /\ ~(IsExpired(bookings[i]) /\ IsCurrent(bookings[i]))

\* C40: the notifications that tell the admins of an expiration are addressed
\* to the same user references as those that tell them of a creation, the
\* firebaseUid of every admin.
C40_AdminsAddressedAlike ==
  \A k \in 1..Len(newNotifications) :
    newNotifications[k].title \in {"New Booking Request", "Computer Available"}
      => newNotifications[k].userId \in AdminUids
====
